---- MODULE Spec2Model ----
(***************************************************************************)
(* Exact inference over a pedigree (heredity.py): load_data, the three     *)
(* nested powerset loops of main, joint_probability, update and normalize. *)
(*                                                                         *)
(* Probabilities are exact rationals.  Every entry of PROBS is a multiple  *)
(* of 0.01 and so is the 0.5 of get_gene_prob, so each of them is held as  *)
(* a whole number of hundredths; a product or sum of them is a natural     *)
(* number (a numerator) over a power of 100 fixed by the population.       *)
(* Numerators outgrow machine integers, so they are little-endian          *)
(* sequences of limbs in base Base without most-significant zero limbs.    *)
(***************************************************************************)
EXTENDS Naturals, Sequences, FiniteSets

\* ------------------------------------------------------------- bounds
\* Largest population of a well-formed input file.
MaxPeople == 3
\* Largest population of an input file that may break the input contract.
MaxRawPeople == 2

\* ------------------------------------------------- exact arithmetic
Base == 100 * 100

Zero == << >>

RECURSIVE BigOfNat(_)
BigOfNat(n) == IF n = 0 THEN << >> ELSE <<n % Base>> \o BigOfNat(n \div Base)

One == BigOfNat(1)

\* a + b + carry, limb by limb
RECURSIVE BigAddC(_, _, _)
BigAddC(a, b, c) ==
    IF a = << >> /\ b = << >>
    THEN BigOfNat(c)
    ELSE LET x == IF a = << >> THEN 0 ELSE Head(a)
             y == IF b = << >> THEN 0 ELSE Head(b)
             s == x + y + c
             ra == IF a = << >> THEN << >> ELSE Tail(a)
             rb == IF b = << >> THEN << >> ELSE Tail(b)
         IN  <<s % Base>> \o BigAddC(ra, rb, s \div Base)

BigAdd(a, b) == BigAddC(a, b, 0)

\* a * m + carry for a natural m below Base
RECURSIVE BigMulSmallC(_, _, _)
BigMulSmallC(a, m, c) ==
    IF a = << >>
    THEN BigOfNat(c)
    ELSE LET s == Head(a) * m + c
         IN  <<s % Base>> \o BigMulSmallC(Tail(a), m, s \div Base)

BigMulSmall(a, m) == IF m = 0 THEN Zero ELSE BigMulSmallC(a, m, 0)

\* a * Base
BigShift(a) == IF a = << >> THEN << >> ELSE <<0>> \o a

RECURSIVE BigMul(_, _)
BigMul(a, b) ==
    IF b = << >>
    THEN Zero
    ELSE BigAdd(BigMulSmall(a, Head(b)), BigShift(BigMul(a, Tail(b))))


\* a - b - borrow for a >= b + borrow (most-significant zero limbs kept)
RECURSIVE BigSubC(_, _, _)
BigSubC(a, b, c) ==
    IF a = << >>
    THEN << >>
    ELSE LET y == (IF b = << >> THEN 0 ELSE Head(b)) + c
             rb == IF b = << >> THEN << >> ELSE Tail(b)
         IN  IF Head(a) >= y
             THEN <<Head(a) - y>> \o BigSubC(Tail(a), rb, 0)
             ELSE <<Head(a) + Base - y>> \o BigSubC(Tail(a), rb, 1)

RECURSIVE BigTrim(_)
BigTrim(a) ==
    IF a = << >> \/ a[Len(a)] # 0 THEN a ELSE BigTrim(SubSeq(a, 1, Len(a) - 1))

BigSub(a, b) == BigTrim(BigSubC(a, b, 0))

\* A rational n/d, kept unreduced.
Frac(n, d) == [n |-> n, d |-> d]

FracOne == Frac(One, One)

FracZero == Frac(Zero, One)

FracAdd(a, b) ==
    IF a.d = b.d
    THEN Frac(BigAdd(a.n, b.n), a.d)
    ELSE Frac(BigAdd(BigMul(a.n, b.d), BigMul(b.n, a.d)), BigMul(a.d, b.d))

FracMul(a, b) == Frac(BigMul(a.n, b.n), BigMul(a.d, b.d))

\* 1 - a, for a <= 1
FracOneMinus(a) == Frac(BigSub(a.d, a.n), a.d)

\* a / b, for b # 0
FracDiv(a, b) ==
    IF a.d = b.d
    THEN Frac(a.n, b.n)
    ELSE Frac(BigMul(a.n, b.d), BigMul(a.d, b.n))

\* a = b as numbers (denominators are never zero)
FracEq(a, b) ==
    IF a.d = b.d THEN a.n = b.n ELSE BigMul(a.n, b.d) = BigMul(b.n, a.d)

FracIsZero(a) == a.n = Zero

\* The float literal h/100.
Pct(h) == Frac(BigOfNat(h), BigOfNat(100))

\* ------------------------------------------------------------ values
None == "None"

PyTrue == "True"

PyFalse == "False"

PyBool(b) == IF b THEN PyTrue ELSE PyFalse

\* Names that input rows carry, in the order the rows come.
NamePool == <<"Harry", "James", "Lily", "Molly", "Arthur", "Ginny">>

\* A name no row of any input file carries.
Stranger == "Sirius"

PROBS ==
    [gene |-> [g \in 0..2 |->
                  CASE g = 2 -> Pct(1) [] g = 1 -> Pct(3) [] g = 0 -> Pct(96)],
     trait |-> [g \in 0..2 |-> [t \in BOOLEAN |->
                  CASE g = 2 /\ t -> Pct(65) [] g = 2 /\ ~t -> Pct(35)
                    [] g = 1 /\ t -> Pct(56) [] g = 1 /\ ~t -> Pct(44)
                    [] g = 0 /\ t -> Pct(1) [] g = 0 /\ ~t -> Pct(99)]],
     mutation |-> Pct(1)]

\* ------------------------------------------------------------ load_data
\* `x or None` of a csv field
OrNone(field) == IF field = "" THEN None ELSE field

load_data(rows) ==
    [name \in {rows[r].name : r \in DOMAIN rows} |->
        LET last == CHOOSE r \in DOMAIN rows :
                        /\ rows[r].name = name
                        /\ \A q \in DOMAIN rows : rows[q].name = name => q <= r
            row == rows[last]
        IN  [name |-> name,
             mother |-> OrNone(row.mother),
             father |-> OrNone(row.father),
             trait |-> IF row.trait = "1" THEN PyTrue
                       ELSE IF row.trait = "0" THEN PyFalse ELSE None]]

\* ------------------------------------------------------------ powerset
\* list(s): the elements of s in the order of NamePool (Python fixes no order
\* for a set; no result below depends on which one is taken).
RECURSIVE ListFrom(_, _)
ListFrom(s, i) ==
    IF i > Len(NamePool) THEN << >>
    ELSE (IF NamePool[i] \in s THEN <<NamePool[i]>> ELSE << >>) \o ListFrom(s, i + 1)

list(s) == ListFrom(s, 1)

\* itertools.combinations(l, r), each tuple as a set
RECURSIVE combinations(_, _)
combinations(l, r) ==
    IF r = 0 THEN << {} >>
    ELSE IF Len(l) < r THEN << >>
    ELSE LET with == combinations(Tail(l), r - 1)
         IN  [c \in 1..Len(with) |-> {Head(l)} \cup with[c]]
                 \o combinations(Tail(l), r)

RECURSIVE chain(_, _, _)
chain(l, r, stop) ==
    IF r >= stop THEN << >> ELSE combinations(l, r) \o chain(l, r + 1, stop)

\* powerset with range(1, len(s) + 1): the empty set is left out
powerset_without_empty(s) == chain(list(s), 1, Len(list(s)) + 1)

powerset(s) == chain(list(s), 0, Len(list(s)) + 1)

\* ---------------------------------------------------- joint_probability
genes_of(person, one_gene, two_genes) ==
    IF person \in two_genes THEN 2
    ELSE IF person \in one_gene THEN 1
    ELSE 0

\* get_gene_prob whose last branch forgets is_mutation
get_gene_prob_no_flip(parent_genes, is_mutation) ==
    IF parent_genes = 2
    THEN (IF ~is_mutation THEN FracOneMinus(PROBS.mutation) ELSE PROBS.mutation)
    ELSE IF parent_genes = 1
    THEN Pct(50)
    ELSE PROBS.mutation

get_gene_prob(parent_genes, is_mutation) ==
    IF parent_genes = 2
    THEN (IF ~is_mutation THEN FracOneMinus(PROBS.mutation) ELSE PROBS.mutation)
    ELSE IF parent_genes = 1
    THEN Pct(50)
    ELSE (IF ~is_mutation THEN PROBS.mutation ELSE FracOneMinus(PROBS.mutation))

\* gene_prob whose one-copy case counts the gene coming from the mother only
gene_prob_one_way(people, person, one_gene, two_genes) ==
    LET genes == genes_of(person, one_gene, two_genes)
    IN  IF people[person].mother = None /\ people[person].father = None
        THEN PROBS.gene[genes]
        ELSE LET mother_genes == genes_of(people[person].mother, one_gene, two_genes)
                 father_genes == genes_of(people[person].father, one_gene, two_genes)
             IN  IF genes = 2
                 THEN FracMul(get_gene_prob(mother_genes, FALSE),
                              get_gene_prob(father_genes, FALSE))
                 ELSE IF genes = 1
                 THEN FracMul(get_gene_prob(mother_genes, FALSE),
                              get_gene_prob(father_genes, TRUE))
                 ELSE FracMul(get_gene_prob(mother_genes, TRUE),
                              get_gene_prob(father_genes, TRUE))

gene_prob(people, person, one_gene, two_genes) ==
    LET genes == genes_of(person, one_gene, two_genes)
    IN  IF people[person].mother = None /\ people[person].father = None
        THEN PROBS.gene[genes]
        ELSE LET mother_genes == genes_of(people[person].mother, one_gene, two_genes)
                 father_genes == genes_of(people[person].father, one_gene, two_genes)
             IN  IF genes = 2
                 THEN FracMul(get_gene_prob(mother_genes, FALSE),
                              get_gene_prob(father_genes, FALSE))
                 ELSE IF genes = 1
                 THEN FracAdd(FracMul(get_gene_prob(mother_genes, FALSE),
                                      get_gene_prob(father_genes, TRUE)),
                              FracMul(get_gene_prob(mother_genes, TRUE),
                                      get_gene_prob(father_genes, FALSE)))
                 ELSE FracMul(get_gene_prob(mother_genes, TRUE),
                              get_gene_prob(father_genes, TRUE))

\* trait_prob that reads the table entry of the other trait value
trait_prob_negated(person, one_gene, two_genes, have_trait) ==
    PROBS.trait[genes_of(person, one_gene, two_genes)][~(person \in have_trait)]

trait_prob(person, one_gene, two_genes, have_trait) ==
    PROBS.trait[genes_of(person, one_gene, two_genes)][(person \in have_trait)]

\* the loop of joint_probability over the people still to visit
RECURSIVE JointLoop(_, _, _, _, _, _)
JointLoop(todo, probability, people, one_gene, two_genes, have_trait) ==
    IF todo = << >>
    THEN probability
    ELSE JointLoop(Tail(todo),
                   FracMul(probability,
                           FracMul(gene_prob(people, Head(todo), one_gene, two_genes),
                                   trait_prob(Head(todo), one_gene, two_genes,
                                              have_trait))),
                   people, one_gene, two_genes, have_trait)

joint_probability(people, one_gene, two_genes, have_trait) ==
    JointLoop(list(DOMAIN people), FracOne, people, one_gene, two_genes, have_trait)

\* --------------------------------------------------------------- update
\* update that adds p to a trait table only for the people in have_trait
update_true_only(probabilities, one_gene, two_genes, have_trait, p) ==
    [person \in DOMAIN probabilities |->
        LET genes == genes_of(person, one_gene, two_genes)
        IN  [gene |-> [probabilities[person].gene EXCEPT
                          ![genes] = FracAdd(@, p)],
             trait |-> IF person \in have_trait
                       THEN [probabilities[person].trait EXCEPT
                                ![TRUE] = FracAdd(@, p)]
                       ELSE probabilities[person].trait]]

update(probabilities, one_gene, two_genes, have_trait, p) ==
    [person \in DOMAIN probabilities |->
        LET genes == genes_of(person, one_gene, two_genes)
            trait == person \in have_trait
        IN  [gene |-> [probabilities[person].gene EXCEPT
                          ![genes] = FracAdd(@, p)],
             trait |-> [probabilities[person].trait EXCEPT
                          ![trait] = FracAdd(@, p)]]]

\* ------------------------------------------------------------ normalize
gene_total(dist) == FracAdd(FracAdd(dist.gene[2], dist.gene[1]), dist.gene[0])

trait_total(dist) == FracAdd(dist.trait[TRUE], dist.trait[FALSE])

\* normalize's loop body without its second inner loop: traits are not scaled
normalize_person_genes_only(dist) ==
    IF FracIsZero(gene_total(dist))
    THEN [raised |-> TRUE, dist |-> dist]
    ELSE [raised |-> FALSE,
          dist |-> [dist EXCEPT
                       !.gene = [g \in 0..2 |->
                                    FracDiv(dist.gene[g], gene_total(dist))]]]

\* One person's tables after the loop body of normalize; a division by a zero
\* total raises ZeroDivisionError and leaves the tables as they were so far.
normalize_person(dist) ==
    IF FracIsZero(gene_total(dist))
    THEN [raised |-> TRUE, dist |-> dist]
    ELSE LET gene == [g \in 0..2 |-> FracDiv(dist.gene[g], gene_total(dist))]
         IN  IF FracIsZero(trait_total(dist))
             THEN [raised |-> TRUE, dist |-> [dist EXCEPT !.gene = gene]]
             ELSE [raised |-> FALSE,
                   dist |-> [gene |-> gene,
                             trait |-> [t \in BOOLEAN |->
                                 FracDiv(dist.trait[t], trait_total(dist))]]]

RECURSIVE NormalizeLoop(_, _)
NormalizeLoop(todo, probabilities) ==
    IF todo = << >>
    THEN [raised |-> FALSE, probabilities |-> probabilities]
    ELSE LET r == normalize_person(probabilities[Head(todo)])
             next == [probabilities EXCEPT ![Head(todo)] = r.dist]
         IN  IF r.raised
             THEN [raised |-> TRUE, probabilities |-> next]
             ELSE NormalizeLoop(Tail(todo), next)

normalize(probabilities) == NormalizeLoop(list(DOMAIN probabilities), probabilities)

\* ----------------------------------------------------------------- main
\* fails_evidence that checks only the people observed to have the trait
fails_evidence_true_only(people, names, have_trait) ==
    \E person \in names :
        /\ people[person].trait = PyTrue
        /\ person \notin have_trait

fails_evidence(people, names, have_trait) ==
    \E person \in names :
        /\ people[person].trait # None
        /\ people[person].trait # PyBool(person \in have_trait)

\* the dictionary comprehension that builds `probabilities`
zero_tables(people) ==
    [person \in DOMAIN people |->
        [gene |-> [g \in 0..2 |-> FracZero],
         trait |-> [t \in BOOLEAN |-> FracZero]]]

\* The hypothesis a call names: everybody's gene count and trait value.
Hypothesis(names, one_gene, two_genes, have_trait) ==
    [genes |-> [person \in names |-> genes_of(person, one_gene, two_genes)],
     trait |-> [person \in names |-> person \in have_trait]]

\* A number for a hypothesis, one base-6 digit per person (another hypothesis
\* of the same people has another number).
RECURSIVE IdFrom(_, _)
IdFrom(todo, h) ==
    IF todo = << >> THEN 0
    ELSE h.genes[Head(todo)] + (IF h.trait[Head(todo)] THEN 3 ELSE 0)
         + 6 * IdFrom(Tail(todo), h)

HypothesisId(h) == IdFrom(list(DOMAIN h.genes), h)

VARIABLES
    file,           \* the rows of the csv file, as csv.DictReader yields them
    pc,             \* where main stands
    people,         \* load_data's result
    probabilities,  \* the tables main builds, update fills and normalize scales
    i, j, k,        \* how many items the three for loops have taken
    have_trait, one_gene, two_genes,   \* the loop variables
    p,              \* the last joint probability
    output,         \* the people whose tables were printed, in order
    calls,          \* history: how many times joint_probability/update ran
    seen,           \* history: the hypotheses they ran on, by HypothesisId
    mass            \* history: the sum of the joint probabilities returned

vars == <<file, pc, people, probabilities, i, j, k, have_trait, one_gene,
          two_genes, p, output, calls, seen, mass>>

names == DOMAIN people

\* ------------------------------------------------------------ inputs
TraitFields == {"1", "0", ""}

\* A row that keeps the input contract: a founder, or a child of the people
\* of the two rows before it (so a file may hold three generations).
RowsFor(r) ==
    {[name |-> NamePool[r], mother |-> NamePool[r - 2], father |-> NamePool[r - 1],
      trait |-> t] : t \in IF r > 2 THEN TraitFields ELSE {}}
    \cup {[name |-> NamePool[r], mother |-> "", father |-> "", trait |-> t] :
             t \in TraitFields}

RECURSIVE FilesOf(_)
FilesOf(n) ==
    IF n = 0 THEN {<< >>}
    ELSE {Append(f, row) : f \in FilesOf(n - 1), row \in RowsFor(n)}

Files == UNION {FilesOf(n) : n \in 0..MaxPeople}

\* Any row: a parent field may be empty alone, name a person of any row or name
\* nobody of the file, and the trait field may hold any text.
RawRowsFor(r, n) ==
    {[name |-> NamePool[r], mother |-> m, father |-> f, trait |-> t] :
        m \in {"", Stranger} \cup ({NamePool[q] : q \in 1..n} \ {NamePool[r]}),
        f \in {"", Stranger} \cup ({NamePool[q] : q \in 1..n} \ {NamePool[r]}),
        t \in TraitFields \cup {"yes"}}

RECURSIVE RawFilesOf(_, _)
RawFilesOf(r, n) ==
    IF r = 0 THEN {<< >>}
    ELSE {Append(f, row) : f \in RawFilesOf(r - 1, n), row \in RawRowsFor(r, n)}

RawFilesUpTo(max) == UNION {RawFilesOf(n, n) : n \in 0..max}

Start ==
    /\ pc = "load"
    /\ people = << >>
    /\ probabilities = << >>
    /\ i = 0 /\ j = 0 /\ k = 0
    /\ have_trait = {} /\ one_gene = {} /\ two_genes = {}
    /\ p = FracZero
    /\ output = << >>
    /\ calls = 0
    /\ seen = {}
    /\ mass = FracZero

Init == file \in Files /\ Start

InitRaw == file \in RawFilesUpTo(MaxRawPeople) /\ Start

\* ----------------------------------------------------------- actions
\* people = load_data(...), the tables of zeros, names = set(people)
LoadData ==
    /\ pc = "load"
    /\ people' = load_data(file)
    /\ probabilities' = zero_tables(people')
    /\ pc' = "for_have_trait"
    /\ UNCHANGED <<file, i, j, k, have_trait, one_gene, two_genes, p, output,
                   calls, seen, mass>>

\* for have_trait in powerset(names): ... if fails_evidence: continue
ForHaveTrait ==
    /\ pc = "for_have_trait"
    /\ LET subsets == powerset(names)
       IN  IF i >= Len(subsets)
           THEN /\ pc' = "normalize"
                /\ UNCHANGED <<i, have_trait>>
           ELSE /\ have_trait' = subsets[i + 1]
                /\ i' = i + 1
                /\ pc' = IF fails_evidence(people, names, have_trait')
                         THEN "for_have_trait" ELSE "for_one_gene"
    /\ j' = 0
    /\ UNCHANGED <<file, people, probabilities, k, one_gene, two_genes, p,
                   output, calls, seen, mass>>

\* for one_gene in powerset(names):
ForOneGene ==
    /\ pc = "for_one_gene"
    /\ LET subsets == powerset(names)
       IN  IF j >= Len(subsets)
           THEN /\ pc' = "for_have_trait"
                /\ UNCHANGED <<j, one_gene>>
           ELSE /\ one_gene' = subsets[j + 1]
                /\ j' = j + 1
                /\ pc' = "for_two_genes"
    /\ k' = 0
    /\ UNCHANGED <<file, people, probabilities, i, have_trait, two_genes, p,
                   output, calls, seen, mass>>

\* the innermost list as powerset(names): one_gene is not taken out
two_genes_list_of_all(all, one) == powerset(all)

\* the list the innermost loop runs over
two_genes_list(all, one) == powerset(all \ one)

\* for two_genes in powerset(names - one_gene): p = joint_probability(...);
\* update(probabilities, ..., p)
ForTwoGenes ==
    /\ pc = "for_two_genes"
    /\ LET subsets == two_genes_list(names, one_gene)
       IN  IF k >= Len(subsets)
           THEN /\ pc' = "for_one_gene"
                /\ UNCHANGED <<k, two_genes, p, probabilities, calls, seen, mass>>
           ELSE /\ two_genes' = subsets[k + 1]
                /\ k' = k + 1
                /\ p' = joint_probability(people, one_gene, two_genes', have_trait)
                /\ probabilities' =
                       update(probabilities, one_gene, two_genes', have_trait, p')
                /\ calls' = calls + 1
                /\ seen' = seen \cup
                       {HypothesisId(Hypothesis(names, one_gene, two_genes',
                                                have_trait))}
                /\ mass' = FracAdd(mass, p')
                /\ pc' = "for_two_genes"
    /\ UNCHANGED <<file, people, i, j, have_trait, one_gene, output>>

\* normalize(probabilities)
Normalize ==
    /\ pc = "normalize"
    /\ probabilities' = normalize(probabilities).probabilities
    /\ pc' = IF normalize(probabilities).raised THEN "error" ELSE "print"
    /\ UNCHANGED <<file, people, i, j, k, have_trait, one_gene, two_genes, p,
                   output, calls, seen, mass>>

\* for person in people: print ...   (the rendering of the numbers is left out)
PrintAll ==
    /\ pc = "print"
    /\ output' = list(names)
    /\ pc' = "done"
    /\ UNCHANGED <<file, people, probabilities, i, j, k, have_trait, one_gene,
                   two_genes, p, calls, seen, mass>>

Next ==
    \/ LoadData
    \/ ForHaveTrait
    \/ ForOneGene
    \/ ForTwoGenes
    \/ Normalize
    \/ PrintAll

Spec == Init /\ [][Next]_vars

SpecRaw == InitRaw /\ [][Next]_vars

\* ------------------------------------------------------------ claims
RECURSIVE Pow(_, _)
Pow(b, e) == IF e = 0 THEN 1 ELSE b * Pow(b, e - 1)

Observed == {person \in names : people[person].trait # None}

Unobserved == names \ Observed

NonFounders ==
    {person \in names :
        ~(people[person].mother = None /\ people[person].father = None)}

BeforeNormalize ==
    pc \in {"for_have_trait", "for_one_gene", "for_two_genes", "normalize"}

AfterNormalize == pc \in {"print", "done"}

\* joint_probability and update have just run on the loop variables
JustCalled == pc = "for_two_genes" /\ k > 0

Consistent(h) ==
    \A person \in Observed : people[person].trait = PyBool(h.trait[person])

ConsistentHypotheses ==
    {h \in [genes : [names -> 0..2], trait : [names -> BOOLEAN]] : Consistent(h)}

\* C1: the nested loops hand joint_probability/update every hypothesis that
\* agrees with the observed traits exactly once and no other: one_gene and
\* two_genes are disjoint, no hypothesis is handed over twice, every one handed
\* over agrees with the observations, and when the loops end all of them were
\* handed over, in 3^n * 2^u calls (n people, u of them with no observed trait).
C1_EnumeratesEachConsistentHypothesisOnce ==
    /\ JustCalled => one_gene \cap two_genes = {}
    /\ Cardinality(seen) = calls
    /\ JustCalled =>
          Consistent(Hypothesis(names, one_gene, two_genes, have_trait))
    /\ (pc = "normalize" /\ names # {}) =>
          /\ seen = {HypothesisId(h) : h \in ConsistentHypotheses}
          /\ calls = Pow(3, Cardinality(names)) * Pow(2, Cardinality(Unobserved))

C1_Witness ==
    /\ pc = "normalize"
    /\ Cardinality(names) >= 2
    /\ Observed # {}
    /\ Unobserved # {}
    /\ calls = Pow(3, Cardinality(names)) * Pow(2, Cardinality(Unobserved))

\* C2: from the tables of zeros on, after every call of update and until
\* normalize runs, each person's three gene weights and two trait weights have
\* the same sum, the same for everybody: the sum of the joint probabilities
\* of the hypotheses handed over so far.
C2_TotalsEqualMass ==
    BeforeNormalize =>
        \A person \in names :
            LET total == gene_total(probabilities[person])
            IN  /\ FracEq(total, trait_total(probabilities[person]))
                /\ FracEq(total, mass)

C2_Witness ==
    /\ pc = "normalize"
    /\ Cardinality(names) >= 2
    /\ calls > 1
    /\ ~FracIsZero(mass)
    /\ \A person \in names : FracEq(trait_total(probabilities[person]), mass)

\* C3: for a person whose trait is observed, the weight of the other trait
\* value is 0 in every state of the run, and after normalize the observed
\* value has probability 1 and the other one 0.
C3_ObservedTraitIsCertain ==
    \A person \in Observed :
        LET obs == people[person].trait = PyTrue
        IN  /\ FracIsZero(probabilities[person].trait[~obs])
            /\ AfterNormalize =>
                  /\ FracEq(probabilities[person].trait[obs], FracOne)
                  /\ FracEq(probabilities[person].trait[~obs], FracZero)

C3_Witness ==
    /\ pc = "done"
    /\ \E person \in names : people[person].trait = PyTrue
    /\ \E person \in names : people[person].trait = PyFalse
    /\ \A person \in Observed :
          FracEq(probabilities[person].trait[people[person].trait = PyTrue],
                 FracOne)

\* C4: in a population that is not empty and whose parents all resolve, every
\* joint probability returned is greater than 0, no total is zero when
\* normalize runs (it never raises), and after normalize each person's three
\* gene values sum to 1 and two trait values sum to 1.
C4_NormalizeNeverDividesByZero ==
    names # {} =>
        /\ calls > 0 => ~FracIsZero(p)
        /\ pc # "error"
        /\ pc = "normalize" =>
              \A person \in names :
                  /\ ~FracIsZero(gene_total(probabilities[person]))
                  /\ ~FracIsZero(trait_total(probabilities[person]))
        /\ AfterNormalize =>
              \A person \in names :
                  /\ FracEq(gene_total(probabilities[person]), FracOne)
                  /\ FracEq(trait_total(probabilities[person]), FracOne)

C4_Witness ==
    /\ pc = "done"
    /\ NonFounders # {}
    /\ Observed # {}
    /\ \A person \in names : FracEq(gene_total(probabilities[person]), FracOne)

\* The transmission model as the specification words it, in hundredths.
Transmits(parent_genes) ==
    CASE parent_genes = 2 -> 99 [] parent_genes = 1 -> 50 [] parent_genes = 0 -> 1

Convolution(c, m, f) ==
    CASE c = 2 -> Transmits(m) * Transmits(f)
      [] c = 0 -> (100 - Transmits(m)) * (100 - Transmits(f))
      [] c = 1 -> Transmits(m) * (100 - Transmits(f))
                  + (100 - Transmits(m)) * Transmits(f)

Prior(g) == CASE g = 0 -> 96 [] g = 1 -> 3 [] g = 2 -> 1

TraitTable(g, t) ==
    LET yes == CASE g = 2 -> 65 [] g = 1 -> 56 [] g = 0 -> 1
    IN  IF t THEN yes ELSE 100 - yes

\* what one person contributes to the joint probability of the current call
ExpectedFactor(person) ==
    LET c == genes_of(person, one_gene, two_genes)
        m == genes_of(people[person].mother, one_gene, two_genes)
        f == genes_of(people[person].father, one_gene, two_genes)
        t == TraitTable(c, person \in have_trait)
    IN  IF person \in NonFounders
        THEN Frac(BigOfNat(Convolution(c, m, f) * t), BigOfNat(1000000))
        ELSE Frac(BigOfNat(Prior(c) * t), BigOfNat(10000))

RECURSIVE ExpectedJoint(_)
ExpectedJoint(todo) ==
    IF todo = {} THEN FracOne
    ELSE LET person == CHOOSE x \in todo : TRUE
         IN  FracMul(ExpectedFactor(person), ExpectedJoint(todo \ {person}))

\* C6: the joint probability returned for a hypothesis is the product over
\* all people of the gene probability times the trait table entry for the
\* person's own gene count and trait value, where the gene probability is the
\* prior 0.96/0.03/0.01 for a founder and, for a child, the convolution of the
\* two parents' transmissions with t(2) = 0.99, t(1) = 0.5, t(0) = 0.01.
C6_JointProbabilityIsProductOfConvolutions ==
    JustCalled => FracEq(p, ExpectedJoint(names))

C6_Witness ==
    /\ JustCalled
    /\ \E person \in NonFounders :
          /\ genes_of(person, one_gene, two_genes) = 1
          /\ genes_of(people[person].mother, one_gene, two_genes) = 2
          /\ genes_of(people[person].father, one_gene, two_genes) = 0
    /\ FracEq(p, ExpectedJoint(names))

EmptyHypothesis == Hypothesis({}, {}, {}, {})

\* C7 as claimed: with an empty population joint_probability and update are
\* never called.
C7_EmptyPopulationMakesNoCall ==
    (pc # "load" /\ names = {}) => calls = 0

\* C7 as amended: with an empty population the loops hand over exactly one
\* hypothesis, the empty one; its joint probability is 1, update has no table
\* to change, normalize does not raise and nothing is printed.
C7_EmptyPopulationMakesOneEmptyCall ==
    (pc # "load" /\ names = {}) =>
        /\ calls <= 1
        /\ calls = 1 => (FracEq(p, FracOne) /\ seen = {HypothesisId(EmptyHypothesis)})
        /\ pc \in {"normalize", "print", "done"} => calls = 1
        /\ probabilities = << >>
        /\ output = << >>
        /\ pc # "error"

C7_Witness ==
    /\ pc = "done"
    /\ file = << >>
    /\ calls = 1
    /\ seen = {HypothesisId(EmptyHypothesis)}

Only == CHOOSE person \in names : TRUE

Ratio(a, b) == Frac(BigOfNat(a), BigOfNat(b))

\* C9: with one founder alone, the gene weight of g before normalize is
\* prior(g) times the sum of P(trait = v | g) over the trait values v the
\* observation allows; with the trait observed true the weights are 0.0096,
\* 0.0168 and 0.0065 with total 0.0329; with no observation the normalized
\* gene distribution is the prior 0.96, 0.03, 0.01.
C9_SingleFounder ==
    (Cardinality(names) = 1 /\ NonFounders = {}) =>
        LET obs == people[Only].trait
            allowed == {v \in BOOLEAN : obs = None \/ obs = PyBool(v)}
            weight(g) == Prior(g) * (  (IF TRUE \in allowed THEN TraitTable(g, TRUE) ELSE 0)
                                     + (IF FALSE \in allowed THEN TraitTable(g, FALSE) ELSE 0))
        IN  /\ pc = "normalize" =>
                  \A g \in 0..2 :
                      FracEq(probabilities[Only].gene[g], Ratio(weight(g), 10000))
            /\ (pc = "normalize" /\ obs = PyTrue) =>
                  /\ FracEq(probabilities[Only].gene[0], Ratio(96, 10000))
                  /\ FracEq(probabilities[Only].gene[1], Ratio(168, 10000))
                  /\ FracEq(probabilities[Only].gene[2], Ratio(65, 10000))
                  /\ FracEq(gene_total(probabilities[Only]), Ratio(329, 10000))
            /\ (AfterNormalize /\ obs = None) =>
                  \A g \in 0..2 :
                      FracEq(probabilities[Only].gene[g], Ratio(Prior(g), 100))

C9_Witness ==
    /\ pc = "normalize"
    /\ Cardinality(names) = 1
    /\ people[Only].trait = PyTrue
    /\ FracEq(gene_total(probabilities[Only]), Ratio(329, 10000))

\* A child of two founders, to ask gene_prob about given gene counts.
Trio ==
    load_data(<<[name |-> "Lily", mother |-> "", father |-> "", trait |-> ""],
                [name |-> "James", mother |-> "", father |-> "", trait |-> ""],
                [name |-> "Harry", mother |-> "Lily", father |-> "James",
                 trait |-> ""]>>)

ChildGeneProb(c, m, f) ==
    LET count == [Lily |-> m, James |-> f, Harry |-> c]
    IN  gene_prob(Trio, "Harry",
                  {person \in DOMAIN Trio : count[person] = 1},
                  {person \in DOMAIN Trio : count[person] = 2})

ChildGeneProbsSumToOne ==
    \A m, f \in 0..2 :
        FracEq(FracAdd(FracAdd(ChildGeneProb(0, m, f), ChildGeneProb(1, m, f)),
                       ChildGeneProb(2, m, f)),
               FracOne)

\* C10: when nobody's trait is observed (and everybody has both parents or
\* none, in the population), the joint probabilities of all the hypotheses
\* sum to 1, so every gene total and trait total is 1 before normalize and
\* normalize changes no weight; and for given gene counts of the parents the
\* child's gene probabilities for 0, 1 and 2 copies sum to 1.
C10_NoEvidenceMassIsOne ==
    /\ (pc = "normalize" /\ names # {} /\ Observed = {}) =>
          /\ FracEq(mass, FracOne)
          /\ \A person \in names :
                /\ FracEq(gene_total(probabilities[person]), FracOne)
                /\ FracEq(trait_total(probabilities[person]), FracOne)
                /\ ~normalize(probabilities).raised
                /\ \A g \in 0..2 :
                      FracEq(normalize(probabilities).probabilities[person].gene[g],
                             probabilities[person].gene[g])
                /\ \A t \in BOOLEAN :
                      FracEq(normalize(probabilities).probabilities[person].trait[t],
                             probabilities[person].trait[t])
          /\ ChildGeneProbsSumToOne

C10_Witness ==
    /\ pc = "normalize"
    /\ NonFounders # {}
    /\ Observed = {}
    /\ FracEq(mass, FracOne)

HasDanglingParent ==
    \E r \in DOMAIN file :
        \E parent \in {file[r].mother, file[r].father} :
            parent # "" /\ parent \notin {file[q].name : q \in DOMAIN file}

\* C5: when some row names a mother or father that is no person of the file,
\* the run fails: no joint probability is returned and nothing is printed.
C5_DanglingParentFails ==
    HasDanglingParent => (calls = 0 /\ output = << >> /\ pc # "done")

HasUnknownTraitField == \E r \in DOMAIN file : file[r].trait \notin TraitFields

\* C8: a row whose trait field is none of the accepted encodings makes
\* loading fail before any inference: it is never taken as an observation or
\* as unobserved.
C8_UnknownTraitFieldFails ==
    HasUnknownTraitField => (pc \in {"load", "error"} /\ people = << >>)

====
